---- MODULE Spec2Model ----
(***************************************************************************)
(* A model of the time-frequency codec of src/src/transforms.py            *)
(* (TorchSTFT, TorchISTFT, ComplexNorm, AudioEncoder, make_filterbanks)    *)
(* and of the training loop of src/src/trainer.py (Trainer).               *)
(*                                                                         *)
(* Numbers.  Tensors are records [shape, data] over a flat row-major       *)
(* buffer, so that view/reshape are reinterpretations of the same data.    *)
(* Arithmetic is exact: waveform samples are integers, windows are held    *)
(* in units of one half, complex bins are Gaussian integers <<re, im>>,  *)
(* and the samples torch.istft returns are rationals <<num, den>> in       *)
(* lowest terms.  The DFT is computed for the sizes whose twiddle factors  *)
(* are Gaussian integers (n_fft in {1, 2, 4}).                             *)
(***************************************************************************)
EXTENDS Integers, Sequences, FiniteSets, TLC

\* ------------------------------------------------------------------ bounds
MaxBatch == 2
MaxChannels == 2
MaxSamples == 4
MaxHop == 4
MaxLength == 5
MaxFrames == 2
MaxAccum == 3
MaxBatches == 3
MaxEpochs == 3
MaxLoss == 1

\* ----------------------------------------------------------- arithmetic
Abs(a) == IF a < 0 THEN -a ELSE a

RECURSIVE Gcd(_, _)
Gcd(a, b) == IF b = 0 THEN a ELSE Gcd(b, a % b)

\* the rational n/d (d # 0) in lowest terms with a positive denominator
Rat(n, d) ==
    LET g == Gcd(Abs(n), Abs(d))
        s == IF d < 0 THEN -1 ELSE 1
    IN  <<s * (n \div g), s * (d \div g)>>

RECURSIVE SumTo(_, _)
SumTo(f, n) == IF n = 0 THEN 0 ELSE f[n] + SumTo(f, n - 1)

RECURSIVE Prod(_)
Prod(s) == IF s = <<>> THEN 1 ELSE Head(s) * Prod(Tail(s))

RECURSIVE IsqrtFrom(_, _)
IsqrtFrom(n, r) == IF (r + 1) * (r + 1) > n THEN r ELSE IsqrtFrom(n, r + 1)

\* floor of the square root
Isqrt(n) == IsqrtFrom(n, 0)

\* complex numbers <<re, im>>
CMul(a, b) == <<a[1] * b[1] - a[2] * b[2], a[1] * b[2] + a[2] * b[1]>>

\* i^m
IPow(m) ==
    CASE m % 4 = 0 -> <<1, 0>>
      [] m % 4 = 1 -> <<0, 1>>
      [] m % 4 = 2 -> <<-1, 0>>
      [] OTHER     -> <<0, -1>>

\* exp(2 pi i m / n) for n dividing 4
Twiddle(n, m) == IPow(m * (4 \div n))

\* the transform sizes of the model: 0 is the size torch rejects, the others
\* are the sizes with Gaussian-integer twiddles
FftSizes == {0, 1, 2, 4}

\* -------------------------------------------------------------- tensors
Error(msg) == [err |-> msg]
IsError(v) == "err" \in DOMAIN v
IsTensor(v) == "shape" \in DOMAIN v

\* no tensor (yet)
Nothing == [nothing |-> TRUE]

Tensor(shape, data) == [shape |-> shape, data |-> data]
Numel(t) == Len(t.data)
Rank(t) == Len(t.shape)
Last(s) == s[Len(s)]
DropLast(s, k) == SubSeq(s, 1, Len(s) - k)
TakeLast(s, k) == SubSeq(s, Len(s) - k + 1, Len(s))

\* x.view(-1, d...) / x.reshape(-1, d...): the same buffer under a new shape
ViewInfer(t, dims) ==
    IF Prod(dims) = 0 \/ Numel(t) % Prod(dims) # 0
    THEN Error("shape is invalid for input size")
    ELSE Tensor(<<Numel(t) \div Prod(dims)>> \o dims, t.data)

\* x.view(shape) / x.reshape(shape)
View(t, shape) ==
    IF Prod(shape) # Numel(t)
    THEN Error("shape is invalid for input size")
    ELSE Tensor(shape, t.data)

\* torch.view_as_real: a complex tensor (data of pairs) as reals, trailing axis 2
ViewAsReal(z) ==
    Tensor(z.shape \o <<2>>,
           [i \in 1..(2 * Len(z.data)) |-> z.data[(i + 1) \div 2][2 - (i % 2)]])

\* torch.view_as_complex: the trailing axis of size 2 becomes <<re, im>>
ViewAsComplex(t) ==
    IF Rank(t) = 0 \/ Last(t.shape) # 2
    THEN Error("Tensor must have a last dimension of size 2")
    ELSE Tensor(DropLast(t.shape, 1),
                [i \in 1..(Numel(t) \div 2) |-> <<t.data[2 * i - 1], t.data[2 * i]>>])

\* ------------------------------------------------------- torch primitives
\* torch.hann_window(n) (periodic), in units of one half:
\* 0.5 * (1 - cos(2 pi k / n)) becomes 1 - cos(2 pi k / n); a window of
\* length 1 is the constant 1
hann_window(n) ==
    IF n = 1 THEN <<2>>
    ELSE [k \in 1..n |-> 1 - Twiddle(n, k - 1)[1]]

\* torch.ones(n), in units of one half
ones_window(n) == [k \in 1..n |-> 2]

\* F.pad(row, [pad, pad], "reflect"): sample i (1-based) of the padded row
ReflectAt(row, pad, i) ==
    LET S == Len(row)
        j == i - pad
    IN  IF j < 1 THEN row[2 - j]
        ELSE IF j > S THEN row[2 * S - j]
        ELSE row[j]

ReflectPad(row, pad) == [i \in 1..(Len(row) + 2 * pad) |-> ReflectAt(row, pad, i)]

\* samples of the signal torch.stft frames: the input, reflect-padded by
\* n_fft // 2 on both sides when center
StftPaddedLen(S, n_fft, center) == IF center THEN S + 2 * (n_fft \div 2) ELSE S

\* the number of frames torch.stft produces
StftFrames(S, n_fft, n_hop, center) ==
    1 + ((StftPaddedLen(S, n_fft, center) - n_fft) \div n_hop)

\* one bin of the one-sided DFT of a windowed frame:
\* sum_j v[j] * exp(-2 pi i f j / n)   (f, j from 0)
DftBin(v, n, f) ==
    LET term == [j \in 1..n |-> CMul(<<v[j], 0>>, Twiddle(n, (4 * n - f) * (j - 1)))]
    IN  <<SumTo([j \in 1..n |-> term[j][1]], n), SumTo([j \in 1..n |-> term[j][2]], n)>>

\* torch.stft(x, n_fft, hop_length, window, center, normalized=False,
\*            onesided=True, pad_mode="reflect", return_complex=True)
\* on a 2-D input (rows, samples): a complex tensor (rows, bins, frames)
torch_stft(x, n_fft, n_hop, window, center) ==
    LET N == x.shape[1]
        S == x.shape[2]
        pad == IF center THEN n_fft \div 2 ELSE 0
        L == S + 2 * pad
    IN  IF n_fft <= 0 THEN Error("stft: expected 0 < n_fft")
        ELSE IF center /\ pad > 0 /\ pad >= S
        THEN Error("pad: padding size should be less than the input dimension")
        ELSE IF n_fft > L THEN Error("stft: expected n_fft <= signal length")
        ELSE IF n_hop <= 0 THEN Error("stft: expected hop_length > 0")
        ELSE IF Len(window) # n_fft
        THEN Error("stft: expected a window of size win_length = n_fft")
        ELSE
          LET F == (n_fft \div 2) + 1
              T == StftFrames(S, n_fft, n_hop, center)
              row(n) == SubSeq(x.data, (n - 1) * S + 1, n * S)
              padded == [n \in 1..N |-> IF center THEN ReflectPad(row(n), pad) ELSE row(n)]
              frame(n, t) == [j \in 1..n_fft |-> padded[n][(t - 1) * n_hop + j] * window[j]]
              bins == [n \in 1..N |-> [t \in 1..T |->
                          LET v == frame(n, t) IN [f \in 1..F |-> DftBin(v, n_fft, f - 1)]]]
              at(i) == LET n == ((i - 1) \div (F * T)) + 1
                           f == (((i - 1) \div T) % F) + 1
                           t == ((i - 1) % T) + 1
                       IN  bins[n][t][f]
          IN  Tensor(<<N, F, T>>, [i \in 1..(N * F * T) |-> at(i)])

\* n * irfft(X)[j]: the real inverse DFT of the one-sided bins X (a function
\* on 1..F of <<re, im>>), times n; the imaginary parts of the DC bin and of
\* the Nyquist bin are ignored
IrfftTimesN(X, n, j) ==
    LET half == (n - 1) \div 2
        mid == [k \in 1..half |-> 2 * CMul(X[k + 1], Twiddle(n, k * (j - 1)))[1]]
        nyq == IF n % 2 = 0 THEN Twiddle(n, (n \div 2) * (j - 1))[1] * X[(n \div 2) + 1][1]
               ELSE 0
    IN  X[1][1] + SumTo(mid, half) + nyq

\* torch.istft(X, n_fft, hop_length, window, center, normalized=False,
\*             onesided=True, length) on a complex input (rows, bins, frames):
\* a real tensor (rows, samples) of rationals.  length = -1 stands for None.
NoLength == -1

torch_istft(X, n_fft, n_hop, window, center, length) ==
    LET N == X.shape[1]
        F == X.shape[2]
        T == X.shape[3]
    IN  IF Numel(X) = 0 THEN Error("istft: input tensor cannot be empty")
        ELSE IF n_fft <= 0 THEN Error("istft: expected 0 < n_fft")
        ELSE IF ~(0 < n_hop /\ n_hop <= n_fft)
        THEN Error("istft: expected 0 < hop_length <= win_length")
        ELSE IF F # (n_fft \div 2) + 1
        THEN Error("istft: expected the frequency dimension to be n_fft / 2 + 1")
        ELSE IF Len(window) # n_fft
        THEN Error("istft: expected a window of size win_length = n_fft")
        ELSE
          LET expected == n_fft + n_hop * (T - 1)
              start == IF center THEN n_fft \div 2 ELSE 0
              end == IF length # NoLength THEN start + length
                     ELSE IF center THEN expected - (n_fft \div 2)
                     ELSE expected
              stop == IF end < expected THEN end ELSE expected
              kept == IF stop > start THEN stop - start ELSE 0
              outLen == IF end > expected /\ kept > 0 THEN end - start ELSE kept
              bin(n, t) == [f \in 1..F |-> X.data[((n - 1) * F + (f - 1)) * T + t]]
              seg == [n \in 1..N |-> [t \in 1..T |->
                         LET b == bin(n, t)
                         IN  [j \in 1..n_fft |-> window[j] * IrfftTimesN(b, n_fft, j)]]]
              \* frames covering sample p (0-based) of the overlap-add buffer
              covers(t, p) == (t - 1) * n_hop <= p /\ p < (t - 1) * n_hop + n_fft
              env == [p \in 0..(expected - 1) |->
                         SumTo([t \in 1..T |-> IF covers(t, p)
                                                THEN window[p - (t - 1) * n_hop + 1]
                                                     * window[p - (t - 1) * n_hop + 1]
                                                ELSE 0], T)]
              ola(n, p) == SumTo([t \in 1..T |-> IF covers(t, p)
                                                 THEN seg[n][t][p - (t - 1) * n_hop + 1]
                                                 ELSE 0], T)
              sample(n, q) == LET p == start + q - 1
                              IN  IF q > kept THEN <<0, 1>>
                                  ELSE Rat(ola(n, p), n_fft * env[p])
          IN  IF kept = 0 THEN Error("istft: min() of an empty window envelope")
              ELSE IF \E p \in start..(stop - 1) : env[p] = 0
              THEN Error("istft: window overlap add min: 1")
              ELSE Tensor(<<N, outLen>>,
                          [i \in 1..(N * outLen) |->
                              sample(((i - 1) \div outLen) + 1, ((i - 1) % outLen) + 1)])

\* ------------------------------------------------------------ transforms
\* an optional argument: <<>> is None, <<v>> is the value v
None == <<>>
Some(v) == <<v>>

DefaultSampleRate == 44100

\* TorchSTFT.__init__
TorchSTFT_init(n_fft, n_hop, center, window) ==
    [n_fft |-> n_fft, n_hop |-> n_hop, center |-> center,
     window |-> IF window = None THEN hann_window(n_fft) ELSE window[1]]

\* TorchISTFT.__init__
TorchISTFT_init(n_fft, n_hop, center, sample_rate, window) ==
    [n_fft |-> n_fft, n_hop |-> n_hop, center |-> center, sample_rate |-> sample_rate,
     window |-> IF window = None THEN hann_window(n_fft) ELSE window[1]]

\* make_filterbanks: one Hann window shared by the encoder and the decoder
make_filterbanks(n_fft, n_hop, center) ==
    LET window == hann_window(n_fft)
    IN  <<TorchSTFT_init(n_fft, n_hop, center, Some(window)),
          TorchISTFT_init(n_fft, n_hop, center, DefaultSampleRate, Some(window))>>

\* ComplexNorm.__init__
ComplexNorm_init(mono) == [mono |-> mono]

\* AudioEncoder.__init__: TorchSTFT with its defaults (center False, own window)
AudioEncoder_init(n_fft, n_hop, sample_rate, num_channels) ==
    [stft |-> TorchSTFT_init(n_fft, n_hop, FALSE, None),
     complex_norm |-> ComplexNorm_init(num_channels = 1)]

\* TorchSTFT.forward, "pack batch": x.view(-1, shape[-1])
STFT_pack(x) == ViewInfer(x, <<Last(x.shape)>>)

\* a variant of the torch.stft call that passes n_fft as the hop
STFT_transform_HopIsNfft(self, packed) ==
    torch_stft(packed, self.n_fft, self.n_fft, self.window, self.center)

\* TorchSTFT.forward, the torch.stft call on the packed batch
STFT_transform(self, packed) ==
    torch_stft(packed, self.n_fft, self.n_hop, self.window, self.center)

\* TorchSTFT.forward, "unpack batch": view_as_real, then
\* stft_f.view(shape[:-1] + stft_f.shape[-3:])
STFT_unpack(shape, complex_stft) ==
    LET stft_f == ViewAsReal(complex_stft)
    IN  View(stft_f, DropLast(shape, 1) \o TakeLast(stft_f.shape, 3))

\* TorchSTFT.forward
TorchSTFT_forward(self, x) ==
    LET packed == STFT_pack(x)
    IN  IF IsError(packed) THEN packed
        ELSE LET complex_stft == STFT_transform(self, packed)
             IN  IF IsError(complex_stft) THEN complex_stft
                 ELSE STFT_unpack(x.shape, complex_stft)

\* TorchISTFT.forward: X.reshape(-1, shape[-3], shape[-2], shape[-1])
ISTFT_pack(X) ==
    IF Len(X.shape) < 3 THEN Error("IndexError: tuple index out of range")
    ELSE ViewInfer(X, TakeLast(X.shape, 3))

\* a variant of the torch.istft call that passes no window (torch.istft then
\* takes a window of ones)
ISTFT_transform_NoWindow(self, packed, length) ==
    LET cplx == ViewAsComplex(packed)
    IN  IF IsError(cplx) THEN cplx
        ELSE torch_istft(cplx, self.n_fft, self.n_hop, ones_window(self.n_fft),
                         self.center, length)

\* TorchISTFT.forward, the torch.istft call on view_as_complex(X)
ISTFT_transform(self, packed, length) ==
    LET cplx == ViewAsComplex(packed)
    IN  IF IsError(cplx) THEN cplx
        ELSE torch_istft(cplx, self.n_fft, self.n_hop, self.window, self.center, length)

\* a variant that returns the packed batch (rows, samples) as it is
ISTFT_unpack_Packed(shape, y) == y

\* TorchISTFT.forward: y.reshape(shape[:-3] + y.shape[-1:])
ISTFT_unpack(shape, y) == View(y, DropLast(shape, 3) \o TakeLast(y.shape, 1))

\* a variant of TorchISTFT.forward that swallows the error of a rejected call
\* and returns silence
TorchISTFT_forward_Silent(self, X, length) ==
    LET packed == ISTFT_pack(X)
        y == IF IsError(packed) THEN packed ELSE ISTFT_transform(self, packed, length)
        n == IF length = NoLength THEN 1 ELSE length
    IN  IF IsError(y) THEN Tensor(<<n>>, [i \in 1..n |-> <<0, 1>>])
        ELSE ISTFT_unpack(X.shape, y)

\* TorchISTFT.forward
TorchISTFT_forward(self, X, length) ==
    LET packed == ISTFT_pack(X)
    IN  IF IsError(packed) THEN packed
        ELSE LET y == ISTFT_transform(self, packed, length)
             IN  IF IsError(y) THEN y
                 ELSE ISTFT_unpack(X.shape, y)

\* torch.abs of a complex tensor: sqrt(re^2 + im^2) per element (the floor
\* of the root; exact on the inputs whose norm is a perfect square)
ComplexAbs(z) ==
    Tensor(z.shape, [i \in 1..Len(z.data) |->
                        Isqrt(z.data[i][1] * z.data[i][1] + z.data[i][2] * z.data[i][2])])

\* torch.mean(t, 1, keepdim=True): the mean over axis 1, as rationals
MeanDim1(t) ==
    IF Rank(t) < 2 THEN Error("IndexError: dimension out of range")
    ELSE LET C == t.shape[2]
             inner == Prod(SubSeq(t.shape, 3, Len(t.shape)))
             outer == t.shape[1]
             total(o, r) == SumTo([c \in 1..C |-> t.data[((o - 1) * C + (c - 1)) * inner + r]], C)
         IN  IF C = 0 THEN Error("mean of an empty axis is nan")
             ELSE Tensor(<<outer, 1>> \o SubSeq(t.shape, 3, Len(t.shape)),
                         [i \in 1..(outer * inner) |->
                             Rat(total(((i - 1) \div inner) + 1, ((i - 1) % inner) + 1), C)])

\* ComplexNorm.forward, "take the magnitude"
Norm_magnitude(spec) ==
    LET cplx == ViewAsComplex(spec)
    IN  IF IsError(cplx) THEN cplx ELSE ComplexAbs(cplx)

\* ComplexNorm.forward, "downmix in the mag domain": a real tensor of rationals
Norm_downmix(self, mag) ==
    IF self.mono THEN MeanDim1(mag)
    ELSE Tensor(mag.shape, [i \in 1..Len(mag.data) |-> <<mag.data[i], 1>>])

\* a variant of ComplexNorm.forward that downmixes the complex bins first and
\* takes the magnitude of the mean
ComplexNorm_forward_MeanFirst(self, spec) ==
    LET cplx == ViewAsComplex(spec)
    IN  IF IsError(cplx) THEN cplx
        ELSE IF ~self.mono THEN Norm_downmix(self, ComplexAbs(cplx))
        ELSE IF Rank(cplx) < 2 THEN Error("IndexError: dimension out of range")
        ELSE LET C == cplx.shape[2]
                 rest == SubSeq(cplx.shape, 3, Len(cplx.shape))
                 inner == Prod(rest)
                 bin(o, c, r) == cplx.data[((o - 1) * C + (c - 1)) * inner + r]
                 re(o, r) == SumTo([c \in 1..C |-> bin(o, c, r)[1]], C)
                 im(o, r) == SumTo([c \in 1..C |-> bin(o, c, r)[2]], C)
             IN  Tensor(<<cplx.shape[1], 1>> \o rest,
                        [i \in 1..(cplx.shape[1] * inner) |->
                            LET o == ((i - 1) \div inner) + 1
                                r == ((i - 1) % inner) + 1
                            IN  Rat(Isqrt(re(o, r) * re(o, r) + im(o, r) * im(o, r)), C)])

\* ComplexNorm.forward
ComplexNorm_forward(self, spec) ==
    LET mag == Norm_magnitude(spec)
    IN  IF IsError(mag) THEN mag ELSE Norm_downmix(self, mag)

\* AudioEncoder.forward
AudioEncoder_forward(self, x) ==
    LET s == TorchSTFT_forward(self.stft, x)
    IN  IF IsError(s) THEN s ELSE ComplexNorm_forward(self.complex_norm, s)

\* ---------------------------------------------------------------- inputs
\* waveforms (B, C, S): row r of the packed batch is pattern * r, so that
\* every row and every sample position is told apart
Ramp(S) == [i \in 1..S |-> i - 2]
Impulse(S, k) == [i \in 1..S |-> IF i = k THEN 1 ELSE 0]
Patterns(S) == {Ramp(S)} \cup {Impulse(S, k) : k \in 1..S}

Wave(B, C, pat) ==
    LET S == Len(pat)
    IN  Tensor(<<B, C, S>>,
               [i \in 1..(B * C * S) |-> pat[((i - 1) % S) + 1] * (((i - 1) \div S) + 1)])

Waves ==
    {Wave(B, C, pat) : B \in {1, MaxBatch}, C \in {1, MaxChannels},
                       pat \in UNION {Patterns(S) : S \in 1..MaxSamples}}

\* complex bins with integer magnitudes
Bins == << <<3, 4>>, <<-3, 4>>, <<0, 5>>, <<-4, -3>>, <<5, 12>>, <<0, 0>>, <<8, -6>> >>

\* a spectrogram (L..., F, T, 2) handed over by an estimator
Spectrogram(L, F, T) ==
    Tensor(L \o <<F, T, 2>>,
           [i \in 1..(Prod(L) * F * T * 2) |->
               Bins[(((i + 1) \div 2 - 1) % Len(Bins)) + 1][2 - (i % 2)]])

LeadingAxes == {<<>>, <<MaxBatch>>, <<1, MaxChannels>>, <<MaxBatch, MaxChannels>>}
FreqBins == {(n \div 2) + 1 : n \in FftSizes \ {0}}

Spectrograms ==
    {Spectrogram(L, F, T) : L \in LeadingAxes, F \in FreqBins, T \in 1..MaxFrames}

Lengths == {NoLength} \cup 0..MaxLength

\* the window argument of the constructors: None (a Hann window of length
\* n_fft is made) or a window of ones of some length
WindowArgs == {None, Some(ones_window(2)), Some(ones_window(4))}

\* --------------------------------------------------------------- trainer
\* float('inf'), the initial best_loss; losses are counted in units of 1e-4
\* (rounded) and 1e-5 (as computed)
Inf == -1

\* no validation loss computed yet
NoLoss == 0 - 1

\* a variant of the comparison: a <= b
LessOrEqual(a, b) == b = Inf \/ (b # Inf /\ a <= b)

\* a < b for a finite a and a b that may be Inf
LessThan(a, b) == b = Inf \/ (b # Inf /\ a < b)

\* round(loss, 4) and f'{loss:.4f}': a loss in units of 1e-5 to the nearest
\* 1e-4, ties to even
Round4(loss) ==
    LET q == loss \div 10
        r == loss % 10
    IN  IF r < 5 THEN q
        ELSE IF r > 5 THEN q + 1
        ELSE IF q % 2 = 0 THEN q ELSE q + 1

\* the validation losses an epoch may compute, in units of 1e-5
LossValues == {10 * k + d : k \in 0..MaxLoss, d \in {4, 5}}

\* os.path.join(checkpoint_dir, f'epoch={cur_ep}-loss={loss:.4f}.pth')
EpochPath(ep, loss) == <<"epoch", ep, Round4(loss)>>
\* os.path.join(checkpoint_dir, CKPT_FILE)
BestPath == <<"CKPT_FILE">>

\* Trainer.save: the checkpoint written to a path
Checkpoint(ep, steps) == [epoch |-> ep, optimizer_steps |-> steps]


\* ----------------------------------------------------------------- state
VARIABLES
    \* the codec
    enc,        \* the TorchSTFT instance
    dec,        \* the TorchISTFT instance
    aenc,       \* the AudioEncoder instance (its stft and complex_norm)
    wave,       \* the waveform given to the encoder in the current run, or Nothing
    spec,       \* the spectrogram at hand (the encoder's output or an estimate), or Nothing
    ret,        \* the last forward call: [op, length, out]
    \* concurrent forward calls on the shared instances
    calls,      \* per thread: [pc, op, x, length, tmp, out, alone]
    built,      \* the instances as the constructors left them
    \* the Trainer
    accum_grad_step,
    n_train,                 \* len(train_loader)
    disable_valid_on_start,
    cur_ep,
    best_loss,
    pc,                      \* where fit stands
    epochs,                  \* fit's argument
    ep_iter,                 \* the last value range(1, epochs + 1) gave
    step,                    \* train_one_epoch's enumerate(..., start=1) index
    grad_passes,             \* backward passes summed in .grad since the last zero_grad
    last_step_passes,        \* grad_passes at the latest optimizer step (0: none yet)
    optimizer_steps,         \* optimizer steps taken (lr_scheduler steps with them)
    files,                   \* checkpoint_dir: path -> checkpoint
    trace,                   \* the passes run, in order: <<"train" | "valid", cur_ep>>
    seen,                    \* the validation losses computed so far
    saved,                   \* the paths the latest valid_one_epoch saved
    prev_best,               \* best_loss before the latest valid_one_epoch
    last_loss                \* the loss the latest valid_one_epoch computed (-1: none yet)

codecVars == <<enc, dec, aenc, wave, spec, ret>>
concVars == <<calls, built>>
trainerVars == <<accum_grad_step, n_train, disable_valid_on_start, cur_ep, best_loss,
                 pc, epochs, ep_iter, step, grad_passes, last_step_passes,
                 optimizer_steps, files, trace, seen, saved, prev_best, last_loss>>
vars == <<codecVars, concVars, trainerVars>>

\* two callers of the shared instances
Threads == {1, 2}

Idle == [op |-> "none", length |-> NoLength, out |-> Nothing]
Call(op, length, out) == [op |-> op, length |-> length, out |-> out]

NoCall == [pc |-> "idle", op |-> "none", x |-> Nothing, length |-> NoLength,
           tmp |-> Nothing, out |-> Nothing, alone |-> Nothing]

\* the configurations the constructors are given
Constructed(n_fft, n_hop, center, window, num_channels) ==
    /\ enc = IF window = None THEN make_filterbanks(n_fft, n_hop, center)[1]
             ELSE TorchSTFT_init(n_fft, n_hop, center, window)
    /\ dec = IF window = None THEN make_filterbanks(n_fft, n_hop, center)[2]
             ELSE TorchISTFT_init(n_fft, n_hop, center, DefaultSampleRate, window)
    /\ aenc = AudioEncoder_init(n_fft, n_hop, DefaultSampleRate, num_channels)
    /\ built = <<enc, dec, aenc>>

CodecFresh == wave = Nothing /\ spec = Nothing /\ ret = Idle

NoThreads == calls = [t \in Threads |-> NoCall]

\* Trainer.__init__
Trainer_init(accum, batches, disable) ==
    /\ accum_grad_step = accum
    /\ n_train = batches
    /\ disable_valid_on_start = disable
    /\ cur_ep = 0
    /\ best_loss = Inf
    /\ pc = "idle"
    /\ epochs = 0
    /\ ep_iter = 0
    /\ step = 0
    /\ grad_passes = 0
    /\ last_step_passes = 0
    /\ optimizer_steps = 0
    /\ files = << >>
    /\ trace = << >>
    /\ seen = {}
    /\ saved = {}
    /\ prev_best = Inf
    /\ last_loss = NoLoss

\* ------------------------------------------------------------- the codec
\* the state after construction: an encoder/decoder pair from make_filterbanks,
\* or from the two constructors given the same arguments and window, and an
\* AudioEncoder
Init ==
    /\ \E n_fft \in FftSizes, n_hop \in 1..MaxHop, center \in BOOLEAN,
          window \in WindowArgs, num_channels \in {1, MaxChannels} :
            Constructed(n_fft, n_hop, center, window, num_channels)
    /\ CodecFresh
    /\ NoThreads
    /\ Trainer_init(1, 1, FALSE)

\* the spectrograms a decoder or norm call may be given: the encoder's output
\* of this run, or an estimate when no waveform was encoded
SpecInputs ==
    IF ret.op = "stft" /\ IsTensor(spec) THEN {spec}
    ELSE IF ret.op = "none" THEN Spectrograms
    ELSE {}

\* encoder(x)
StftForward(x) ==
    /\ ret.op = "none"
    /\ wave' = x
    /\ spec' = TorchSTFT_forward(enc, x)
    /\ ret' = Call("stft", NoLength, spec')
    /\ UNCHANGED <<enc, dec, aenc, concVars, trainerVars>>

\* decoder(X, length)
IstftForward(X, length) ==
    /\ spec' = X
    /\ ret' = Call("istft", length, TorchISTFT_forward(dec, X, length))
    /\ UNCHANGED <<enc, dec, aenc, wave, concVars, trainerVars>>

\* complex_norm(X)
NormForward(X) ==
    /\ spec' = X
    /\ ret' = Call("norm", NoLength, ComplexNorm_forward(aenc.complex_norm, X))
    /\ UNCHANGED <<enc, dec, aenc, wave, concVars, trainerVars>>

\* audio_encoder(x)
AudioEncoderForward(x) ==
    /\ ret.op = "none"
    /\ wave' = x
    /\ spec' = Nothing
    /\ ret' = Call("aenc", NoLength, AudioEncoder_forward(aenc, x))
    /\ UNCHANGED <<enc, dec, aenc, concVars, trainerVars>>

\* the caller drops the tensors of the finished run and takes the next input
NextInput ==
    /\ ret.op # "none"
    /\ wave' = Nothing
    /\ spec' = Nothing
    /\ ret' = Idle
    /\ UNCHANGED <<enc, dec, aenc, concVars, trainerVars>>

Next ==
    \/ \E x \in Waves : StftForward(x)
    \/ \E X \in SpecInputs, length \in Lengths : IstftForward(X, length)
    \/ \E X \in SpecInputs : NormForward(X)
    \/ \E x \in Waves : AudioEncoderForward(x)
    \/ NextInput

Spec == Init /\ [][Next]_vars

\* ------------------------------------------------------------ the Trainer
TrainerInit ==
    /\ Constructed(4, 1, TRUE, None, MaxChannels)
    /\ CodecFresh
    /\ NoThreads
    /\ \E accum \in 1..MaxAccum, batches \in 1..MaxBatches, disable \in BOOLEAN :
           Trainer_init(accum, batches, disable)

\* valid_one_epoch, given the mean validation loss the loader's batches gave
valid_one_epoch(loss) ==
    LET rounded == Round4(loss)
        checkpoint == Checkpoint(cur_ep, optimizer_steps)
        epoch_path == EpochPath(cur_ep, loss)
        better == LessThan(rounded, best_loss)
        put(f, path) == [q \in DOMAIN f \cup {path} |-> IF q = path THEN checkpoint ELSE f[q]]
    IN  /\ best_loss' = IF better THEN rounded ELSE best_loss
        /\ files' = IF better THEN put(put(files, epoch_path), BestPath)
                    ELSE put(files, epoch_path)
        /\ saved' = IF better THEN {epoch_path, BestPath} ELSE {epoch_path}
        /\ trace' = Append(trace, <<"valid", cur_ep>>)
        /\ seen' = seen \cup {loss}
        /\ prev_best' = best_loss
        /\ last_loss' = loss

\* a variant of fit that reads the flag the other way round
Fit_FlagInverted(E) ==
    /\ pc = "idle"
    /\ epochs' = E
    /\ pc' = IF disable_valid_on_start THEN "valid_on_start" ELSE "for"
    /\ UNCHANGED <<codecVars, concVars, accum_grad_step, n_train, disable_valid_on_start,
                   cur_ep, best_loss, ep_iter, step, grad_passes, last_step_passes,
                   optimizer_steps, files, trace, seen, saved, prev_best, last_loss>>

\* fit(epochs): to(device), then the validation on start or the loop
Fit(E) ==
    /\ pc = "idle"
    /\ epochs' = E
    /\ pc' = IF disable_valid_on_start THEN "for" ELSE "valid_on_start"
    /\ UNCHANGED <<codecVars, concVars, accum_grad_step, n_train, disable_valid_on_start,
                   cur_ep, best_loss, ep_iter, step, grad_passes, last_step_passes,
                   optimizer_steps, files, trace, seen, saved, prev_best, last_loss>>

\* fit: if not self.disable_valid_on_start: self.valid_one_epoch()
ValidOnStart(loss) ==
    /\ pc = "valid_on_start"
    /\ valid_one_epoch(loss)
    /\ pc' = "for"
    /\ UNCHANGED <<codecVars, concVars, accum_grad_step, n_train, disable_valid_on_start,
                   cur_ep, epochs, ep_iter, step, grad_passes, last_step_passes,
                   optimizer_steps>>

\* fit: for self.cur_ep in range(1, epochs + 1), entering train_one_epoch
ForEpoch ==
    /\ pc = "for"
    /\ ep_iter < epochs
    /\ ep_iter' = ep_iter + 1
    /\ cur_ep' = ep_iter'
    /\ step' = 0
    /\ trace' = Append(trace, <<"train", cur_ep'>>)
    /\ pc' = IF n_train = 0 THEN "valid" ELSE "train"
    /\ UNCHANGED <<codecVars, concVars, accum_grad_step, n_train, disable_valid_on_start,
                   best_loss, epochs, grad_passes, last_step_passes, optimizer_steps,
                   files, seen, saved, prev_best, last_loss>>

\* fit: the range is exhausted
ForDone ==
    /\ pc = "for"
    /\ ep_iter >= epochs
    /\ pc' = "done"
    /\ UNCHANGED <<codecVars, concVars, accum_grad_step, n_train, disable_valid_on_start,
                   cur_ep, best_loss, epochs, ep_iter, step, grad_passes,
                   last_step_passes, optimizer_steps, files, trace, seen, saved, prev_best, last_loss>>

\* whether the batch numbered s ends an accumulation window
StepsOptimizer(s) == s % accum_grad_step = 0

\* train_one_epoch: one batch of the loop (backward, and the optimizer step,
\* zero_grad and lr_scheduler.step when step % accum_grad_step = 0)
TrainStep ==
    /\ pc = "train"
    /\ step < n_train
    /\ step' = step + 1
    /\ IF StepsOptimizer(step')
       THEN /\ last_step_passes' = grad_passes + 1
            /\ optimizer_steps' = optimizer_steps + 1
            /\ grad_passes' = 0
       ELSE /\ grad_passes' = grad_passes + 1
            /\ UNCHANGED <<last_step_passes, optimizer_steps>>
    /\ pc' = IF step' = n_train THEN "valid" ELSE "train"
    /\ UNCHANGED <<codecVars, concVars, accum_grad_step, n_train, disable_valid_on_start,
                   cur_ep, best_loss, epochs, ep_iter, files, trace, seen, saved, prev_best, last_loss>>

\* fit: self.valid_one_epoch() after the epoch's training
ValidEpoch(loss) ==
    /\ pc = "valid"
    /\ valid_one_epoch(loss)
    /\ pc' = "for"
    /\ UNCHANGED <<codecVars, concVars, accum_grad_step, n_train, disable_valid_on_start,
                   cur_ep, epochs, ep_iter, step, grad_passes, last_step_passes,
                   optimizer_steps>>

TrainerNext ==
    \/ \E E \in 0..MaxEpochs : Fit(E)
    \/ \E loss \in LossValues : ValidOnStart(loss)
    \/ ForEpoch
    \/ ForDone
    \/ TrainStep
    \/ \E loss \in LossValues : ValidEpoch(loss)

TrainerSpec == TrainerInit /\ [][TrainerNext]_vars

\* ------------------------------------------- concurrent forward calls
ConcInit ==
    /\ \E n_fft \in {2, 4}, n_hop \in {1, 2}, center \in BOOLEAN,
          num_channels \in {1, MaxChannels} :
            Constructed(n_fft, n_hop, center, None, num_channels)
    /\ CodecFresh
    /\ NoThreads
    /\ Trainer_init(1, 1, FALSE)

ConcWaves == {Wave(MaxBatch, MaxChannels, Ramp(MaxSamples)), Wave(1, 1, Impulse(MaxSamples, 1))}
ConcSpectrograms == {Spectrogram(<<MaxBatch, MaxChannels>>, 3, MaxFrames),
                     Spectrogram(<<1, MaxChannels>>, 2, 1)}
ConcLengths == {NoLength, MaxSamples}

\* the calls a thread may make: <<op, input, length>>
ConcCalls ==
    ({"stft", "aenc"} \X ConcWaves \X {NoLength})
        \cup ({"istft"} \X ConcSpectrograms \X ConcLengths)
        \cup ({"norm"} \X ConcSpectrograms \X {NoLength})

\* a forward call run alone, start to end, on the instances as they are
ForwardAlone(op, x, length) ==
    CASE op = "stft"  -> TorchSTFT_forward(enc, x)
      [] op = "istft" -> TorchISTFT_forward(dec, x, length)
      [] op = "norm"  -> ComplexNorm_forward(aenc.complex_norm, x)
      [] op = "aenc"  -> AudioEncoder_forward(aenc, x)

\* the statements of a forward call before it reads its instance's fields
\* (AudioEncoder.forward: the call of self.stft)
Phase1(op, x) ==
    CASE op = "stft"  -> STFT_pack(x)
      [] op = "istft" -> ISTFT_pack(x)
      [] op = "norm"  -> Norm_magnitude(x)
      [] op = "aenc"  -> TorchSTFT_forward(aenc.stft, x)

\* the statements that read the instance's fields
Phase2(op, tmp, length) ==
    CASE op = "stft"  -> STFT_transform(enc, tmp)
      [] op = "istft" -> ISTFT_transform(dec, tmp, length)
      [] op = "norm"  -> Norm_downmix(aenc.complex_norm, tmp)
      [] op = "aenc"  -> Norm_magnitude(tmp)

\* the statements up to the return
Phase3(op, x, tmp) ==
    CASE op = "stft"  -> STFT_unpack(x.shape, tmp)
      [] op = "istft" -> ISTFT_unpack(x.shape, tmp)
      [] op = "norm"  -> tmp
      [] op = "aenc"  -> Norm_downmix(aenc.complex_norm, tmp)

\* a call that went from stage to stage with the value v: an error ends it
Advance(c, stage, v) ==
    IF IsError(v) THEN [c EXCEPT !.pc = "returned", !.tmp = Nothing, !.out = v]
    ELSE IF stage = "returned" THEN [c EXCEPT !.pc = "returned", !.tmp = Nothing, !.out = v]
    ELSE [c EXCEPT !.pc = stage, !.tmp = v]

\* thread t enters forward
CallBegin(t, op, x, length) ==
    /\ calls[t].pc = "idle"
    /\ calls' = [calls EXCEPT ![t] =
                    Advance([pc |-> "idle", op |-> op, x |-> x, length |-> length,
                             tmp |-> Nothing, out |-> Nothing,
                             alone |-> ForwardAlone(op, x, length)],
                            "packed", Phase1(op, x))]
    /\ UNCHANGED <<codecVars, built, trainerVars>>

\* a variant in which the encoder's torch.stft step rescales the window in
\* place (the Parameter the decoder shares)
CallTransform_InPlace(t) ==
    /\ calls[t].pc = "packed"
    /\ calls' = [calls EXCEPT ![t] =
                    Advance(@, "transformed", Phase2(@.op, @.tmp, @.length))]
    /\ IF calls[t].op = "stft"
       THEN /\ enc' = [enc EXCEPT !.window = [k \in 1..Len(@) |-> 2 * @[k]]]
            /\ dec' = [dec EXCEPT !.window = [k \in 1..Len(@) |-> 2 * @[k]]]
       ELSE UNCHANGED <<enc, dec>>
    /\ UNCHANGED <<aenc, wave, spec, ret, built, trainerVars>>

\* thread t runs the statements that read self's fields
CallTransform(t) ==
    /\ calls[t].pc = "packed"
    /\ calls' = [calls EXCEPT ![t] =
                    Advance(@, "transformed", Phase2(@.op, @.tmp, @.length))]
    /\ UNCHANGED <<codecVars, built, trainerVars>>

\* thread t returns from forward
CallReturn(t) ==
    /\ calls[t].pc = "transformed"
    /\ calls' = [calls EXCEPT ![t] = Advance(@, "returned", Phase3(@.op, @.x, @.tmp))]
    /\ UNCHANGED <<codecVars, built, trainerVars>>

\* thread t drops the result
CallEnd(t) ==
    /\ calls[t].pc = "returned"
    /\ calls' = [calls EXCEPT ![t] = NoCall]
    /\ UNCHANGED <<codecVars, built, trainerVars>>

ConcNext ==
    \/ \E t \in Threads, c \in ConcCalls : CallBegin(t, c[1], c[2], c[3])
    \/ \E t \in Threads : CallTransform(t)
    \/ \E t \in Threads : CallReturn(t)
    \/ \E t \in Threads : CallEnd(t)

ConcSpec == ConcInit /\ [][ConcNext]_vars

\* =================================================================== claims
\* a TransformConfig the specification calls valid, with a window of length n_fft
ValidConfig(self) ==
    /\ self.n_fft > 0
    /\ 0 < self.n_hop /\ self.n_hop <= self.n_fft
    /\ Len(self.window) = self.n_fft

\* the encoder and the decoder were built with the same n_fft, n_hop and
\* window, and center = true
SameTransformCentered ==
    /\ enc.n_fft = dec.n_fft /\ enc.n_hop = dec.n_hop /\ enc.window = dec.window
    /\ enc.center /\ dec.center

\* the decoder was given the encoder's output for the waveform `wave`, with
\* length = S, S a multiple of n_hop
RoundTripCase ==
    /\ IsTensor(wave)
    /\ SameTransformCentered
    /\ ValidConfig(enc)
    /\ Last(wave.shape) % enc.n_hop = 0

\* the waveform y (of rationals) is the waveform x (of integers)
SameWaveform(y, x) ==
    /\ y.shape = x.shape
    /\ Len(y.data) = Len(x.data)
    /\ \A i \in 1..Len(x.data) : y.data[i] = <<x.data[i], 1>>

UnderWindow(self, T, p) ==
    \E t \in 1..T :
        LET i == p - (t - 1) * self.n_hop
        IN  0 <= i /\ i < self.n_fft /\ self.window[i + 1] # 0

\* the S samples of a centered round trip: S exceeds the reflect padding
\* n_fft // 2, and each of the S samples lies under a nonzero window value
Invertible(self, S) ==
    LET half == self.n_fft \div 2
        T == 1 + ((S + 2 * half - self.n_fft) \div self.n_hop)
    IN  /\ S > half
        /\ \A p \in half..(half + S - 1) : UnderWindow(self, T, p)

FrameAxis(t) == t.shape[Len(t.shape) - 1]
\* the frequency axis of a spectrogram (L..., F, T, 2)
FreqAxis(t) == t.shape[Len(t.shape) - 2]

\* C2 as stated: the encoder's output has 1 + floor((S_padded - n_fft) / n_hop)
\* frames, where S_padded = S + n_fft when center = true and S otherwise.
C2_FrameCountAsClaimed ==
    (ret.op = "stft" /\ IsTensor(ret.out)) =>
        LET S == Last(wave.shape)
            S_padded == IF enc.center THEN S + enc.n_fft ELSE S
        IN  FrameAxis(ret.out) = 1 + ((S_padded - enc.n_fft) \div enc.n_hop)

\* C2, amended: the encoder's output has 1 + floor((S_padded - n_fft) / n_hop)
\* frames, where S_padded = S + 2 * floor(n_fft / 2) when center = true (which
\* is S + n_fft for an even n_fft only) and S otherwise.
C2_FrameCount ==
    (ret.op = "stft" /\ IsTensor(ret.out)) =>
        LET S == Last(wave.shape)
            half == CHOOSE h \in 0..enc.n_fft : 2 * h <= enc.n_fft /\ enc.n_fft < 2 * h + 2
            S_padded == IF enc.center THEN S + half + half ELSE S
        IN  FrameAxis(ret.out) = 1 + ((S_padded - enc.n_fft) \div enc.n_hop)

\* a centered transform of odd size that gave several frames
C2_Witness ==
    /\ ret.op = "stft" /\ IsTensor(ret.out)
    /\ enc.center /\ enc.n_fft % 2 = 1
    /\ Last(wave.shape) = MaxSamples
    /\ FrameAxis(ret.out) > 1

\* C3: constructing a TorchSTFT or TorchISTFT with n_hop > n_fft, n_fft <= 0
\* or a window whose length differs from n_fft raises at construction, so no
\* forward call is ever reached on a misconfigured instance.
C3_MisconfigurationRejected ==
    /\ ret.op \in {"stft", "aenc"} => ValidConfig(enc)
    /\ ret.op = "istft" => ValidConfig(dec)

\* the magnitude sqrt(re^2 + im^2) of a complex bin, to the integer below
Magnitude(z) ==
    LET n == z[1] * z[1] + z[2] * z[2]
    IN  CHOOSE m \in 0..n : m * m <= n /\ n < (m + 1) * (m + 1)

\* the complex bin of the spectrogram t (d0, d1, rest..., 2) at index o of
\* axis 0, c of axis 1 and r of the flattened rest (all from 1)
BinAt(t, o, c, r) ==
    LET inner == Prod(SubSeq(t.shape, 3, Len(t.shape) - 1))
        k == ((o - 1) * t.shape[2] + (c - 1)) * inner + r
    IN  <<t.data[2 * k - 1], t.data[2 * k]>>

\* C4: ComplexNorm(mono = True).forward returns a tensor whose axis 1 has size
\* 1 and whose value at every position is the arithmetic mean of the C
\* magnitudes sqrt(re^2 + im^2) along axis 1; with mono = False the result
\* keeps every axis and holds the magnitudes.
C4_MonoDownmix ==
    (ret.op = "norm" /\ IsTensor(ret.out)) =>
        LET shape == DropLast(spec.shape, 1)
            C == shape[2]
            inner == Prod(SubSeq(shape, 3, Len(shape)))
        IN  IF aenc.complex_norm.mono
            THEN /\ ret.out.shape = <<shape[1], 1>> \o SubSeq(shape, 3, Len(shape))
                 /\ Len(ret.out.data) = shape[1] * inner
                 /\ \A o \in 1..shape[1], r \in 1..inner :
                        LET v == ret.out.data[(o - 1) * inner + r]
                            total == SumTo([c \in 1..C |-> Magnitude(BinAt(spec, o, c, r))], C)
                        IN  v[2] > 0 /\ v[1] * C = total * v[2]
            ELSE /\ ret.out.shape = shape
                 /\ Len(ret.out.data) = Prod(shape)
                 /\ \A k \in 1..Prod(shape) :
                        ret.out.data[k] = <<Magnitude(<<spec.data[2 * k - 1], spec.data[2 * k]>>), 1>>

\* a mono downmix of two channels whose mean magnitude differs from the
\* magnitude of the mean bin
C4_Witness ==
    /\ ret.op = "norm" /\ IsTensor(ret.out) /\ aenc.complex_norm.mono
    /\ Len(spec.shape) = 5 /\ spec.shape[2] = 2
    /\ \E o \in 1..spec.shape[1] :
          LET a == BinAt(spec, o, 1, 1)
              b == BinAt(spec, o, 2, 1)
          IN  /\ ret.out.data[(o - 1) * (spec.shape[3] * spec.shape[4]) + 1]
                     = Rat(Magnitude(a) + Magnitude(b), 2)
              /\ Magnitude(a) + Magnitude(b) # Magnitude(<<a[1] + b[1], a[2] + b[2]>>)

\* the decoder was given a spectrogram (L..., F, T, 2) with F = n_fft / 2 + 1
\* and a length of at least one sample, on a valid configuration
DecodeCase ==
    /\ ret.op = "istft" /\ ret.length >= 1
    /\ ValidConfig(dec)
    /\ FreqAxis(spec) = (dec.n_fft \div 2) + 1

\* C5 as stated: for every spectrogram (L..., freq_bins, frames, 2) and every
\* given length, TorchISTFT.forward returns a waveform of shape (L..., length).
C5_ShapeAsClaimed ==
    DecodeCase =>
        (IsTensor(ret.out) /\ ret.out.shape = DropLast(spec.shape, 3) \o <<ret.length>>)

\* the samples torch.istft keeps of the n_fft + n_hop * (frames - 1) the
\* frames cover: from n_fft // 2 when center (0 otherwise), `length` of them
\* or as many as there are
KeptSamples(self, T, length) ==
    LET expected == self.n_fft + self.n_hop * (T - 1)
        start == IF self.center THEN self.n_fft \div 2 ELSE 0
    IN  {p \in start..(start + length - 1) : p < expected}

\* C5, amended: for every spectrogram (L..., freq_bins, frames, 2) with
\* freq_bins = n_fft / 2 + 1 on a valid configuration and every length of at
\* least 1, provided the squared window envelope of the frames is not zero at
\* any of the samples kept, TorchISTFT.forward returns a waveform of shape
\* (L..., length): the leading axes are those of X, and the samples past the
\* ones the frames cover are zero.
C5_Shape ==
    (DecodeCase /\ \A p \in KeptSamples(dec, FrameAxis(spec), ret.length) :
                      UnderWindow(dec, FrameAxis(spec), p)) =>
        LET L == DropLast(spec.shape, 3)
            covered == Cardinality(KeptSamples(dec, FrameAxis(spec), ret.length))
        IN  /\ IsTensor(ret.out)
            /\ ret.out.shape = L \o <<ret.length>>
            /\ Len(ret.out.data) = Prod(L) * ret.length
            /\ \A row \in 1..Prod(L), q \in 1..ret.length :
                   q > covered => ret.out.data[(row - 1) * ret.length + q] = <<0, 1>>

\* a batch with two leading axes decoded to a length past what the frames cover
C5_Witness ==
    /\ DecodeCase /\ IsTensor(ret.out)
    /\ \A p \in KeptSamples(dec, FrameAxis(spec), ret.length) :
           UnderWindow(dec, FrameAxis(spec), p)
    /\ DropLast(spec.shape, 3) = <<MaxBatch, MaxChannels>>
    /\ ret.length = MaxLength
    /\ ret.length > dec.n_fft + dec.n_hop * (FrameAxis(spec) - 1)
    /\ \E i \in 1..Len(ret.out.data) : ret.out.data[i][1] # 0

\* C6: TorchISTFT.forward on a spectrogram whose freq_bins axis is not
\* n_fft / 2 + 1 is rejected with an error and returns no waveform, and the
\* instances keep the fields their constructors gave them.
C6_FreqBinsRejected ==
    /\ (ret.op = "istft" /\ FreqAxis(spec) # (dec.n_fft \div 2) + 1) => IsError(ret.out)
    /\ <<enc, dec, aenc>> = built

\* a call rejected for its freq_bins alone: a valid configuration that accepts
\* other spectrograms of the same length
C6_Witness ==
    /\ ret.op = "istft" /\ IsError(ret.out)
    /\ ValidConfig(dec) /\ dec.n_fft = 4 /\ dec.center /\ dec.n_hop = 1
    /\ FreqAxis(spec) = 2
    /\ ret.length = MaxSamples

\* C7: no forward call writes a field of an instance or the window the
\* encoder and the decoder share, so under every interleaving of concurrent
\* forward calls each call returns what it returns when run alone.
C7_ForwardCallsIndependent ==
    /\ <<enc, dec, aenc>> = built
    /\ enc.window = dec.window
    /\ \A t \in Threads : calls[t].pc = "returned" => calls[t].out = calls[t].alone

\* a decoder call returned a waveform while an encoder call of the other
\* thread, begun before, had read the shared fields and not yet returned
C7_Witness ==
    /\ calls[1].pc = "transformed" /\ calls[1].op = "stft"
    /\ calls[2].pc = "returned" /\ calls[2].op = "istft" /\ IsTensor(calls[2].out)

\* C8: every optimizer step is applied to gradients accumulated from exactly
\* accum_grad_step backward passes since the previous zero_grad (or the
\* start), also when the batches per epoch are no multiple of accum_grad_step.
C8_ExactAccumulation ==
    optimizer_steps > 0 => last_step_passes = accum_grad_step

\* the loss to 4 decimals: the nearest multiple of 1e-4, the even one on a tie
Nearest4(loss) ==
    CHOOSE r \in 0..(loss \div 10 + 1) :
        \/ 10 * r - loss < 5 /\ loss - 10 * r < 5
        \/ (10 * r - loss = 5 \/ loss - 10 * r = 5) /\ r % 2 = 0

\* the least of a non-empty set of numbers
Least(S) == CHOOSE m \in S : \A n \in S : m <= n

\* a <= b where either may be Inf
AtMost(a, b) == b = Inf \/ (a # Inf /\ a <= b)

ExpectedTrace(E, disable) ==
    (IF disable THEN << >> ELSE << <<"valid", 0>> >>)
        \o [i \in 1..(2 * E) |-> IF i % 2 = 1 THEN <<"train", (i + 1) \div 2>>
                                 ELSE <<"valid", i \div 2>>]

IsPrefix(s, t) == Len(s) <= Len(t) /\ s = SubSeq(t, 1, Len(s))

\* C10: fit(E) on a fresh Trainer validates with cur_ep = 0 before any
\* training if and only if disable_valid_on_start is false, then for
\* ep = 1..E runs one training pass with cur_ep = ep followed at once by one
\* validation pass with the same cur_ep, and ends with cur_ep = E after
\* E + (0 or 1) validations and a checkpoint per validation.
C10_EpochOrdering ==
    /\ IsPrefix(trace, ExpectedTrace(epochs, disable_valid_on_start))
    /\ cur_ep <= epochs
    /\ pc \in {"train", "valid"} => trace[Len(trace)] = <<"train", cur_ep>>
    /\ pc = "done" =>
          /\ trace = ExpectedTrace(epochs, disable_valid_on_start)
          /\ cur_ep = epochs
          /\ \A ep \in (IF disable_valid_on_start THEN 1 ELSE 0)..epochs :
                 \E path \in DOMAIN files : path[1] = "epoch" /\ path[2] = ep

\* fit(MaxEpochs) ended, with the validation on start
C10_Witness ==
    /\ pc = "done" /\ epochs = MaxEpochs /\ ~disable_valid_on_start
    /\ Len(trace) = 2 * MaxEpochs + 1
    /\ n_train > 1

====
